---- MODULE Spec2Model ----
(***************************************************************************)
(* Dining Philosophers (examples/dining_philosophers): a ring of 2P nodes, *)
(* philosophers on the even positions and forks on the odd ones, advanced  *)
(* one tick at a time by DiningPhilosophersModel.step(), with the three    *)
(* fork-acquisition strategies Naive, Atomic and Cooperative.              *)
(***************************************************************************)
EXTENDS Integers, Sequences, FiniteSets

\* ---------------------------------------------------------------- bounds
\* Number of philosopher turns explored by the bounded specification: a call
\* of model.step() begins only if all of its turns fit in what is left.
MaxTurns == 12
\* Largest ring explored (the smallest is MinPhilosophers).
MaxPhilosophers == 4
\* Probabilities and uniform draws are multiples of 1/ChanceScale.
ChanceScale == 2
\* Value at which total_eaten saturates in the unbounded runs that count meals.
LiveCap == 1
\* Number of step() calls in the runs that follow the rows of the data collector.
MaxSamples == 22
\* Calls of step() followed on the ring of MaxReporters + 1 philosophers.
LargeRingSteps == 2

\* ------------------------------------------------------------- constants
MinPhilosophers == 3
DefaultPhilosophers == 5
None == -1
THINKING == "THINKING"
HUNGRY == "HUNGRY"
EATING == "EATING"
Strategies == {"Naive", "Atomic", "Cooperative"}
\* hungry_chance and full_chance range over [0, 1]; random.random() over [0, 1).
Chances == 0..ChanceScale
Draws == 0..(ChanceScale - 1)
\* range(10): the data collector has the reporters P0 .. P9.
MaxReporters == 10

VARIABLES
    num_nodes,                  \* model.num_nodes = 2 * num_philosophers
    strategy,                   \* model.strategy
    hungry_chance,              \* model.hungry_chance (in units of 1/ChanceScale)
    full_chance,                \* model.full_chance (in units of 1/ChanceScale)
    state,                      \* PhilosopherAgent.state, by position
    total_eaten,                \* PhilosopherAgent.total_eaten
    ticks_since_state_change,   \* PhilosopherAgent.ticks_since_state_change
    total_wait_time,            \* PhilosopherAgent.total_wait_time
    eating_count,               \* PhilosopherAgent.eating_count
    is_used,                    \* ForkAgent.is_used, by position
    owner,                      \* ForkAgent.owner (a philosopher position or None)
    steps,                      \* model.steps
    pc,                         \* "idle" between step() calls, "turns" inside one
    order,                      \* philosophers still to take their turn this tick
    collected,                  \* number of rows the data collector holds
    sample,                     \* the last of these rows: <<>> or <<row>>
    drawn                       \* random.random() calls of the turns of this step()

config == <<num_nodes, strategy, hungry_chance, full_chance>>
philosopher_fields ==
    <<state, total_eaten, ticks_since_state_change, total_wait_time, eating_count>>
fork_fields == <<is_used, owner>>
vars ==
    <<config, philosopher_fields, fork_fields, steps, pc, order, collected, sample, drawn>>

\* ------------------------------------------------------------- topology
\* range(num_nodes) split by node_id % 2 (model.py:27-34).
Philosophers == {n \in 0..(num_nodes - 1) : n % 2 = 0}
Forks == {n \in 0..(num_nodes - 1) : n % 2 = 1}

left_pos(p) == (p - 1) % num_nodes
right_pos(p) == (p + 1) % num_nodes

\* nx.circulant_graph(num_nodes, [2]): node n is adjacent to n-2 and n+2.
get_neighbors_offset_two(n) == {(n - 2) % num_nodes, (n + 2) % num_nodes}

\* nx.circulant_graph(num_nodes, [1]): node n is adjacent to n-1 and n+1.
get_neighbors(n) == {(n - 1) % num_nodes, (n + 1) % num_nodes}

\* [a for a in neighbors if isinstance(a, ForkAgent)]
my_forks(p) == {a \in get_neighbors(p) : a \in Forks}

\* Philosophers at pos-2 and pos+2, the list the Cooperative strategy scans.
neighbors_p(p) ==
    {q \in Philosophers : q \in {(p - 2) % num_nodes, (p + 2) % num_nodes}}

\* ------------------------------------------------------------- helpers
\* All orders in which shuffle_do can visit the set S.
Orders(S) ==
    {s \in [1..Cardinality(S) -> S] : \A i, j \in 1..Cardinality(S) : s[i] = s[j] => i = j}

\* x + n on a counter: exact, or saturating at limit where the counters are limited.
Add(x, n, limited, limit) == IF limited /\ x + n > limit THEN limit ELSE x + n

\* Python integers do not overflow: the bounded specification keeps every
\* counter exact and follows the rows of the data collector.
ExactCounters == [limited |-> FALSE, meals |-> 0, other |-> 0, ticks |-> 0, rows |-> TRUE]
\* No branch of the Naive and Atomic strategies reads a counter: the unbounded
\* specifications track none of them, or only the meals, up to LiveCap, and
\* leave the rows of the data collector aside.
NoCounters == [limited |-> TRUE, meals |-> 0, other |-> 0, ticks |-> 0, rows |-> FALSE]
MealCounters == [limited |-> TRUE, meals |-> LiveCap, other |-> 0, ticks |-> 0, rows |-> FALSE]
\* The Cooperative strategy reads ticks_since_state_change: its unbounded
\* specification tracks this count and no other. The limit is never met, as
\* the counts are kept below it between the calls of step() (see Compressed).
TickCounters ==
    [limited |-> TRUE, meals |-> 0, other |-> 0, ticks |-> 2 * MaxPhilosophers + 1,
     rows |-> FALSE]

\* ------------------------------------------------------------- construction
\* DiningPhilosophersModel.__init__ and the two agent constructors, for
\* num_philosophers = P and the two probabilities drawn from chances.
ModelInitWith(P, chances) ==
    /\ num_nodes = P * 2
    /\ strategy \in Strategies
    /\ hungry_chance \in chances
    /\ full_chance \in chances
    /\ state = [p \in {n \in 0..(2 * P - 1) : n % 2 = 0} |-> THINKING]
    /\ total_eaten = [p \in {n \in 0..(2 * P - 1) : n % 2 = 0} |-> 0]
    /\ ticks_since_state_change = [p \in {n \in 0..(2 * P - 1) : n % 2 = 0} |-> 0]
    /\ total_wait_time = [p \in {n \in 0..(2 * P - 1) : n % 2 = 0} |-> 0]
    /\ eating_count = [p \in {n \in 0..(2 * P - 1) : n % 2 = 0} |-> 0]
    /\ is_used = [f \in {n \in 0..(2 * P - 1) : n % 2 = 1} |-> FALSE]
    /\ owner = [f \in {n \in 0..(2 * P - 1) : n % 2 = 1} |-> None]
    /\ steps = 0
    /\ pc = "idle"
    /\ order = <<>>
    /\ collected = 0
    /\ sample = <<>>
    /\ drawn = 0

\* The constructor called within the ranges the sliders of app.py offer.
ModelInit(P) == ModelInitWith(P, Chances)

Init == \E P \in MinPhilosophers..MaxPhilosophers : ModelInit(P)

\* __init__ stores its arguments as they come (lines 17-20) and tests none of
\* them: any number of philosophers from 0 on builds a ring, and a probability
\* may lie below 0 or above 1.
AnyPhilosophers == 0..MaxPhilosophers
AnyChances == (-1)..(ChanceScale + 1)
InitAnyArguments == \E P \in AnyPhilosophers : ModelInitWith(P, AnyChances)

\* ------------------------------------------------------------- philosopher
\* A start of a meal that books the wait as it was before the increment of
\* line 41.
start_eating_before_increment(p, t, cap) ==
    /\ total_wait_time' = [total_wait_time EXCEPT ![p] = Add(@, t - 1, cap.limited, cap.other)]
    /\ eating_count' = [eating_count EXCEPT ![p] = Add(@, 1, cap.limited, cap.other)]
    /\ state' = [state EXCEPT ![p] = EATING]
    /\ ticks_since_state_change' = [ticks_since_state_change EXCEPT ![p] = 0]
    /\ UNCHANGED total_eaten

\* A start of a meal that forgets line 37: the meal is not counted as started.
start_eating_uncounted(p, t, cap) ==
    /\ total_wait_time' = [total_wait_time EXCEPT ![p] = Add(@, t, cap.limited, cap.other)]
    /\ state' = [state EXCEPT ![p] = EATING]
    /\ ticks_since_state_change' = [ticks_since_state_change EXCEPT ![p] = 0]
    /\ UNCHANGED <<total_eaten, eating_count>>

\* PhilosopherAgent._start_eating, with t the already incremented tick count.
start_eating(p, t, cap) ==
    /\ total_wait_time' = [total_wait_time EXCEPT ![p] = Add(@, t, cap.limited, cap.other)]
    /\ eating_count' = [eating_count EXCEPT ![p] = Add(@, 1, cap.limited, cap.other)]
    /\ state' = [state EXCEPT ![p] = EATING]
    /\ ticks_since_state_change' = [ticks_since_state_change EXCEPT ![p] = 0]
    /\ UNCHANGED total_eaten

\* An increment of line 41 that lands on a counter the philosophers share:
\* the turn of one of them ages all the others too.
keep_state_shared_ticks(p, t) ==
    /\ ticks_since_state_change' =
           [q \in Philosophers |-> IF q = p THEN t ELSE ticks_since_state_change[q] + 1]
    /\ UNCHANGED <<state, total_eaten, total_wait_time, eating_count>>

\* A turn that leaves the state alone and loses the increment of line 41.
keep_state_without_increment(p, t) ==
    UNCHANGED <<state, total_eaten, ticks_since_state_change, total_wait_time, eating_count>>

\* A turn that leaves the state alone: only the increment of line 41 remains.
keep_state(p, t) ==
    /\ ticks_since_state_change' = [ticks_since_state_change EXCEPT ![p] = t]
    /\ UNCHANGED <<state, total_eaten, total_wait_time, eating_count>>

\* A release that clears is_used and forgets to clear the owner.
put_down_forks_keeps_owner(p) ==
    /\ is_used' = [f \in Forks |->
                      IF f \in my_forks(p) /\ owner[f] = p THEN FALSE ELSE is_used[f]]
    /\ UNCHANGED owner

\* A release whose loop stops after the left fork.
put_down_forks_left_only(p) ==
    /\ is_used' = [f \in Forks |->
                      IF f = left_pos(p) /\ owner[f] = p THEN FALSE ELSE is_used[f]]
    /\ owner' = [f \in Forks |->
                      IF f = left_pos(p) /\ owner[f] = p THEN None ELSE owner[f]]

\* A release whose loop runs over every fork of the ring.
put_down_forks_whole_ring(p) ==
    /\ is_used' = [f \in Forks |-> FALSE]
    /\ owner' = [f \in Forks |-> None]

\* A release whose owner test never matches (the owner compared with the
\* position, not with the agent): the forks stay with the philosopher.
put_down_forks_never_matches(p) == UNCHANGED fork_fields

\* PhilosopherAgent.put_down_forks: the fork fields after the release.
put_down_forks(p) ==
    /\ is_used' = [f \in Forks |->
                      IF f \in my_forks(p) /\ owner[f] = p THEN FALSE ELSE is_used[f]]
    /\ owner' = [f \in Forks |->
                      IF f \in my_forks(p) /\ owner[f] = p THEN None ELSE owner[f]]

\* A Naive grab that starts eating on a free right fork without claiming it.
eat_strategy_naive_unclaimed_right(p, t, cap) ==
    LET left_fork == left_pos(p)
        right_fork == right_pos(p)
        take_left == owner[left_fork] # p /\ ~is_used[left_fork]
        used1 == IF take_left THEN [is_used EXCEPT ![left_fork] = TRUE] ELSE is_used
        owner1 == IF take_left THEN [owner EXCEPT ![left_fork] = p] ELSE owner
    IN  IF owner1[left_fork] = p /\ ~used1[right_fork]
        THEN /\ is_used' = used1
             /\ owner' = owner1
             /\ start_eating(p, t, cap)
        ELSE /\ is_used' = used1
             /\ owner' = owner1
             /\ keep_state(p, t)

\* The textbook grab: one fork per turn, the right fork only in a turn that
\* begins with the left fork already owned.
eat_strategy_naive_one_fork_per_turn(p, t, cap) ==
    LET left_fork == left_pos(p)
        right_fork == right_pos(p)
    IN  IF owner[left_fork] = p /\ ~is_used[right_fork]
        THEN /\ is_used' = [is_used EXCEPT ![right_fork] = TRUE]
             /\ owner' = [owner EXCEPT ![right_fork] = p]
             /\ start_eating(p, t, cap)
        ELSE IF owner[left_fork] # p /\ ~is_used[left_fork]
        THEN /\ is_used' = [is_used EXCEPT ![left_fork] = TRUE]
             /\ owner' = [owner EXCEPT ![left_fork] = p]
             /\ keep_state(p, t)
        ELSE /\ UNCHANGED fork_fields
             /\ keep_state(p, t)

\* A Naive grab whose second test forgets the left fork.
eat_strategy_naive_ignores_left(p, t, cap) ==
    LET left_fork == left_pos(p)
        right_fork == right_pos(p)
        take_left == owner[left_fork] # p /\ ~is_used[left_fork]
        used1 == IF take_left THEN [is_used EXCEPT ![left_fork] = TRUE] ELSE is_used
        owner1 == IF take_left THEN [owner EXCEPT ![left_fork] = p] ELSE owner
    IN  IF ~used1[right_fork]
        THEN /\ is_used' = [used1 EXCEPT ![right_fork] = TRUE]
             /\ owner' = [owner1 EXCEPT ![right_fork] = p]
             /\ start_eating(p, t, cap)
        ELSE /\ is_used' = used1
             /\ owner' = owner1
             /\ keep_state(p, t)

\* A Naive grab that starts with whichever fork get_neighbors lists first.
eat_strategy_naive_any_first(p, t, cap) ==
    \E first \in my_forks(p) :
        LET second == CHOOSE f \in my_forks(p) : f # first
            take_first == owner[first] # p /\ ~is_used[first]
            used1 == IF take_first THEN [is_used EXCEPT ![first] = TRUE] ELSE is_used
            owner1 == IF take_first THEN [owner EXCEPT ![first] = p] ELSE owner
        IN  IF owner1[first] = p /\ ~used1[second]
            THEN /\ is_used' = [used1 EXCEPT ![second] = TRUE]
                 /\ owner' = [owner1 EXCEPT ![second] = p]
                 /\ start_eating(p, t, cap)
            ELSE /\ is_used' = used1
                 /\ owner' = owner1
                 /\ keep_state(p, t)

\* A Naive grab with the two positions swapped: the right fork is claimed
\* first and kept while the left one is awaited.
eat_strategy_naive_right_first(p, t, cap) ==
    LET left_fork == right_pos(p)
        right_fork == left_pos(p)
        take_left == owner[left_fork] # p /\ ~is_used[left_fork]
        used1 == IF take_left THEN [is_used EXCEPT ![left_fork] = TRUE] ELSE is_used
        owner1 == IF take_left THEN [owner EXCEPT ![left_fork] = p] ELSE owner
    IN  IF owner1[left_fork] = p /\ ~used1[right_fork]
        THEN /\ is_used' = [used1 EXCEPT ![right_fork] = TRUE]
             /\ owner' = [owner1 EXCEPT ![right_fork] = p]
             /\ start_eating(p, t, cap)
        ELSE /\ is_used' = used1
             /\ owner' = owner1
             /\ keep_state(p, t)

\* A Naive grab whose first test forgets "not left_fork.is_used": the left
\* fork is taken whoever holds it.
eat_strategy_naive_steals_left(p, t, cap) ==
    LET left_fork == left_pos(p)
        right_fork == right_pos(p)
        take_left == owner[left_fork] # p
        used1 == IF take_left THEN [is_used EXCEPT ![left_fork] = TRUE] ELSE is_used
        owner1 == IF take_left THEN [owner EXCEPT ![left_fork] = p] ELSE owner
    IN  IF owner1[left_fork] = p /\ ~used1[right_fork]
        THEN /\ is_used' = [used1 EXCEPT ![right_fork] = TRUE]
             /\ owner' = [owner1 EXCEPT ![right_fork] = p]
             /\ start_eating(p, t, cap)
        ELSE /\ is_used' = used1
             /\ owner' = owner1
             /\ keep_state(p, t)

\* PhilosopherAgent.eat_strategy_naive. The two next(...) of lines 87-88 have
\* no default: they raise, and the turn does not complete, unless my_forks
\* holds a fork at each of the two positions.
eat_strategy_naive(p, t, cap) ==
    LET left_fork == left_pos(p)
        right_fork == right_pos(p)
        take_left == owner[left_fork] # p /\ ~is_used[left_fork]
        used1 == IF take_left THEN [is_used EXCEPT ![left_fork] = TRUE] ELSE is_used
        owner1 == IF take_left THEN [owner EXCEPT ![left_fork] = p] ELSE owner
    IN  /\ {left_fork, right_fork} \subseteq my_forks(p)
        /\ IF owner1[left_fork] = p /\ ~used1[right_fork]
           THEN /\ is_used' = [used1 EXCEPT ![right_fork] = TRUE]
                /\ owner' = [owner1 EXCEPT ![right_fork] = p]
                /\ start_eating(p, t, cap)
           ELSE /\ is_used' = used1
                /\ owner' = owner1
                /\ keep_state(p, t)

\* An Atomic grab that tests any() where the code tests all().
eat_strategy_atomic_any_free(p, t, cap) ==
    IF \E fork \in my_forks(p) : ~is_used[fork]
    THEN /\ is_used' = [f \in Forks |-> IF f \in my_forks(p) THEN TRUE ELSE is_used[f]]
         /\ owner' = [f \in Forks |-> IF f \in my_forks(p) THEN p ELSE owner[f]]
         /\ start_eating(p, t, cap)
    ELSE /\ UNCHANGED fork_fields
         /\ keep_state(p, t)

\* An Atomic grab that keeps whichever fork is free when the other is not.
eat_strategy_atomic_partial(p, t, cap) ==
    IF \A fork \in my_forks(p) : ~is_used[fork]
    THEN /\ is_used' = [f \in Forks |-> IF f \in my_forks(p) THEN TRUE ELSE is_used[f]]
         /\ owner' = [f \in Forks |-> IF f \in my_forks(p) THEN p ELSE owner[f]]
         /\ start_eating(p, t, cap)
    ELSE /\ is_used' = [f \in Forks |-> IF f \in my_forks(p) THEN TRUE ELSE is_used[f]]
         /\ owner' = [f \in Forks |->
                          IF f \in my_forks(p) /\ ~is_used[f] THEN p ELSE owner[f]]
         /\ keep_state(p, t)

\* An Atomic grab whose test lost its "not".
eat_strategy_atomic_inverted(p, t, cap) ==
    IF \A fork \in my_forks(p) : is_used[fork]
    THEN /\ is_used' = [f \in Forks |-> IF f \in my_forks(p) THEN TRUE ELSE is_used[f]]
         /\ owner' = [f \in Forks |-> IF f \in my_forks(p) THEN p ELSE owner[f]]
         /\ start_eating(p, t, cap)
    ELSE /\ UNCHANGED fork_fields
         /\ keep_state(p, t)

\* PhilosopherAgent.eat_strategy_atomic
eat_strategy_atomic(p, t, cap) ==
    IF \A fork \in my_forks(p) : ~is_used[fork]
    THEN /\ is_used' = [f \in Forks |-> IF f \in my_forks(p) THEN TRUE ELSE is_used[f]]
         /\ owner' = [f \in Forks |-> IF f \in my_forks(p) THEN p ELSE owner[f]]
         /\ start_eating(p, t, cap)
    ELSE /\ UNCHANGED fork_fields
         /\ keep_state(p, t)

\* A yield test without the tie-break on equal waits.
should_yield_no_tie_break(p, t) ==
    \E q \in neighbors_p(p) :
        state[q] = HUNGRY /\ ticks_since_state_change[q] > t

\* A yield test that compares the neighbours with the tick count the acting
\* philosopher had before the increment of line 41.
should_yield_before_increment(p, t) ==
    \E q \in neighbors_p(p) :
        /\ state[q] = HUNGRY
        /\ \/ ticks_since_state_change[q] > t - 1
           \/ ticks_since_state_change[q] = t - 1 /\ q < p

\* A loop that never asks anybody to yield.
should_yield_never(p, t) == FALSE

\* The loop of lines 130-141: does philosopher p, whose tick count is t, yield?
should_yield(p, t) ==
    \E q \in neighbors_p(p) :
        /\ state[q] = HUNGRY
        /\ \/ ticks_since_state_change[q] > t
           \/ ticks_since_state_change[q] = t /\ q < p

\* A Cooperative grab that claims the forks before it decides to yield.
eat_strategy_cooperative_claims_first(p, t, cap) ==
    IF \E fork \in my_forks(p) : is_used[fork]
    THEN /\ UNCHANGED fork_fields
         /\ keep_state(p, t)
    ELSE /\ is_used' = [f \in Forks |-> IF f \in my_forks(p) THEN TRUE ELSE is_used[f]]
         /\ owner' = [f \in Forks |-> IF f \in my_forks(p) THEN p ELSE owner[f]]
         /\ IF should_yield(p, t) THEN keep_state(p, t) ELSE start_eating(p, t, cap)

\* PhilosopherAgent.eat_strategy_cooperative
eat_strategy_cooperative(p, t, cap) ==
    IF \E fork \in my_forks(p) : is_used[fork]
    THEN /\ UNCHANGED fork_fields
         /\ keep_state(p, t)
    ELSE IF should_yield(p, t)
    THEN /\ UNCHANGED fork_fields
         /\ keep_state(p, t)
    ELSE /\ is_used' = [f \in Forks |-> IF f \in my_forks(p) THEN TRUE ELSE is_used[f]]
         /\ owner' = [f \in Forks |-> IF f \in my_forks(p) THEN p ELSE owner[f]]
         /\ start_eating(p, t, cap)

\* A turn that calls random.random() before it tests the state.
random_calls_before_test(p) == 1

\* The calls of random.random() in a turn of p. Python evaluates the right
\* operand of an "and" only if the left one holds: line 45 draws if the state
\* is THINKING, line 54 is reached if the state is not HUNGRY and the first
\* test failed, and draws if the state is EATING. try_to_eat and the three
\* strategies draw nothing.
random_calls(p) ==
    (IF state[p] = THINKING THEN 1 ELSE 0) + (IF state[p] = EATING THEN 1 ELSE 0)

\* A try_to_eat that treats an acquisition that does not succeed as a failure:
\* it raises, and the turn does not complete.
try_to_eat_raises(p, t, cap) ==
    /\ CASE strategy = "Naive" -> eat_strategy_naive(p, t, cap)
         [] strategy = "Atomic" -> eat_strategy_atomic(p, t, cap)
         [] strategy = "Cooperative" -> eat_strategy_cooperative(p, t, cap)
    /\ state'[p] = EATING

\* PhilosopherAgent.try_to_eat
try_to_eat(p, t, cap) ==
    CASE strategy = "Naive" -> eat_strategy_naive(p, t, cap)
      [] strategy = "Atomic" -> eat_strategy_atomic(p, t, cap)
      [] strategy = "Cooperative" -> eat_strategy_cooperative(p, t, cap)

\* A turn whose second branch is an "if" where the code has an "elif": a
\* philosopher that becomes Hungry goes on to its forks in the same turn.
step_hungry_eats_at_once(p, u, cap) ==
    LET t == Add(ticks_since_state_change[p], 1, cap.limited, cap.ticks)
    IN  /\ drawn' = Add(drawn, random_calls(p), cap.limited, cap.other)
        /\ IF state[p] = THINKING /\ u < hungry_chance
           THEN IF \A fork \in my_forks(p) : ~is_used[fork]
                THEN /\ is_used' = [f \in Forks |-> IF f \in my_forks(p) THEN TRUE ELSE is_used[f]]
                     /\ owner' = [f \in Forks |-> IF f \in my_forks(p) THEN p ELSE owner[f]]
                     /\ start_eating(p, 0, cap)
                ELSE /\ state' = [state EXCEPT ![p] = HUNGRY]
                     /\ ticks_since_state_change' = [ticks_since_state_change EXCEPT ![p] = 0]
                     /\ UNCHANGED <<total_eaten, total_wait_time, eating_count, fork_fields>>
           ELSE IF state[p] = HUNGRY
           THEN try_to_eat(p, t, cap)
           ELSE IF state[p] = EATING /\ u < full_chance
           THEN /\ put_down_forks(p)
                /\ state' = [state EXCEPT ![p] = THINKING]
                /\ total_eaten' = [total_eaten EXCEPT ![p] = Add(@, 1, cap.limited, cap.meals)]
                /\ ticks_since_state_change' = [ticks_since_state_change EXCEPT ![p] = 0]
                /\ UNCHANGED <<total_wait_time, eating_count>>
           ELSE /\ keep_state(p, t)
                /\ UNCHANGED fork_fields

\* A turn whose last test is "<=" where the code has "<": a meal can end
\* although full_chance is 0.
step_full_chance_inclusive(p, u, cap) ==
    LET t == Add(ticks_since_state_change[p], 1, cap.limited, cap.ticks)
    IN  /\ drawn' = Add(drawn, random_calls(p), cap.limited, cap.other)
        /\ IF state[p] = THINKING /\ u < hungry_chance
           THEN /\ state' = [state EXCEPT ![p] = HUNGRY]
                /\ ticks_since_state_change' = [ticks_since_state_change EXCEPT ![p] = 0]
                /\ UNCHANGED <<total_eaten, total_wait_time, eating_count, fork_fields>>
           ELSE IF state[p] = HUNGRY
           THEN try_to_eat(p, t, cap)
           ELSE IF state[p] = EATING /\ u <= full_chance
           THEN /\ put_down_forks(p)
                /\ state' = [state EXCEPT ![p] = THINKING]
                /\ total_eaten' = [total_eaten EXCEPT ![p] = Add(@, 1, cap.limited, cap.meals)]
                /\ ticks_since_state_change' = [ticks_since_state_change EXCEPT ![p] = 0]
                /\ UNCHANGED <<total_wait_time, eating_count>>
           ELSE /\ keep_state(p, t)
                /\ UNCHANGED fork_fields

\* PhilosopherAgent.step: the turn of philosopher p; u is the value random.random()
\* returns if the turn draws one.
step(p, u, cap) ==
    LET t == Add(ticks_since_state_change[p], 1, cap.limited, cap.ticks)
    IN  /\ drawn' = Add(drawn, random_calls(p), cap.limited, cap.other)
        /\ IF state[p] = THINKING /\ u < hungry_chance
           THEN /\ state' = [state EXCEPT ![p] = HUNGRY]
                /\ ticks_since_state_change' = [ticks_since_state_change EXCEPT ![p] = 0]
                /\ UNCHANGED <<total_eaten, total_wait_time, eating_count, fork_fields>>
           ELSE IF state[p] = HUNGRY
           THEN try_to_eat(p, t, cap)
           ELSE IF state[p] = EATING /\ u < full_chance
           THEN /\ put_down_forks(p)
                /\ state' = [state EXCEPT ![p] = THINKING]
                /\ total_eaten' = [total_eaten EXCEPT ![p] = Add(@, 1, cap.limited, cap.meals)]
                /\ ticks_since_state_change' = [ticks_since_state_change EXCEPT ![p] = 0]
                /\ UNCHANGED <<total_wait_time, eating_count>>
           ELSE /\ keep_state(p, t)
                /\ UNCHANGED fork_fields

\* ------------------------------------------------------------- metrics
\* A Python float (IEEE 754 binary64): 53 significant bits, held as the
\* leading bit and Limbs digits of LimbBits bits each, and a binary exponent.
\* The value of x is (digits read in base Limb) * 2^(x.exp - Limbs * LimbBits).
LimbBits == 13
Limbs == 4
Limb == 8192
\* 0 and 0.0, which Python holds equal.
Zero == [digits |-> <<>>, exp |-> 0]

RECURSIVE Pow2(_)
Pow2(k) == IF k = 0 THEN 1 ELSE 2 * Pow2(k - 1)

\* int.bit_length
RECURSIVE BitLength(_)
BitLength(a) == IF a = 0 THEN 0 ELSE 1 + BitLength(a \div 2)

\* The next float above x > 0 (math.nextafter).
Successor(x) ==
    LET low == {i \in 2..(Limbs + 1) : x.digits[i] < Limb - 1}
    IN  IF low = {}
        THEN [digits |-> [i \in 1..(Limbs + 1) |-> IF i = 1 THEN 1 ELSE 0], exp |-> x.exp + 1]
        ELSE LET k == CHOOSE i \in low : \A j \in low : j <= i
             IN  [digits |-> [i \in 1..(Limbs + 1) |->
                                IF i < k THEN x.digits[i]
                                ELSE IF i = k THEN x.digits[i] + 1 ELSE 0],
                  exp |-> x.exp]

\* The next float below x > 0.
Predecessor(x) ==
    LET high == {i \in 2..(Limbs + 1) : x.digits[i] > 0}
    IN  IF high = {}
        THEN [digits |-> [i \in 1..(Limbs + 1) |-> IF i = 1 THEN 1 ELSE Limb - 1],
              exp |-> x.exp - 1]
        ELSE LET k == CHOOSE i \in high : \A j \in high : j <= i
             IN  [digits |-> [i \in 1..(Limbs + 1) |->
                                IF i < k THEN x.digits[i]
                                ELSE IF i = k THEN x.digits[i] - 1 ELSE Limb - 1],
                  exp |-> x.exp]

\* Round to nearest, ties to even: rest / unit is what lies below the last bit of x.
Round(x, rest, unit) ==
    IF 2 * rest > unit \/ (2 * rest = unit /\ x.digits[Limbs + 1] % 2 = 1)
    THEN Successor(x)
    ELSE x

\* The first count digits of r / N after the point (0 <= r < N) and the remainder.
RECURSIVE LongDivision(_, _, _)
LongDivision(r, N, count) ==
    IF count = 0
    THEN [digits |-> <<>>, rem |-> r]
    ELSE LET rest == LongDivision((r * Limb) % N, N, count - 1)
         IN  [digits |-> <<(r * Limb) \div N>> \o rest.digits, rem |-> rest.rem]

\* a / n for integers a >= 0 and n > 0: the float nearest to the quotient.
truediv(a, n) ==
    IF a = 0
    THEN Zero
    ELSE LET up == BitLength(a) - BitLength(n)
             A(e) == IF e >= 0 THEN a ELSE a * Pow2(-e)
             N(e) == IF e >= 0 THEN n * Pow2(e) ELSE n
             e == IF A(up) >= N(up) THEN up ELSE up - 1
             q == LongDivision(A(e) - N(e), N(e), Limbs)
         IN  Round([digits |-> <<1>> \o q.digits, exp |-> e], q.rem, N(e))

\* float(a)
float_of(a) == truediv(a, 1)

\* The digits of digits * n, the first of them holding what exceeds a limb.
RECURSIVE MulDigits(_, _, _, _)
MulDigits(digits, n, i, carry) ==
    IF i = 1
    THEN <<digits[1] * n + carry>>
    ELSE LET v == digits[i] * n + carry
         IN  Append(MulDigits(digits, n, i - 1, v \div Limb), v % Limb)

\* x * n for a float x and an integer n >= 0: the float nearest to the product.
float_mul(x, n) ==
    IF x = Zero \/ n = 0
    THEN Zero
    ELSE LET product == MulDigits(x.digits, n, Limbs + 1, 0)
             k == BitLength(product[1]) - 1
             shifted == [i \in 1..(Limbs + 1) |->
                            (product[i] \div Pow2(k))
                            + (IF i = 1 THEN 0
                               ELSE (product[i - 1] % Pow2(k)) * Pow2(LimbBits - k))]
         IN  Round([digits |-> shifted, exp |-> x.exp + k],
                   product[Limbs + 1] % Pow2(k), Pow2(k))

\* sum(f[p] for p in m.philosophers)
RECURSIVE SumOver(_, _)
SumOver(f, S) ==
    IF S = {}
    THEN 0
    ELSE LET p == CHOOSE q \in S : TRUE
         IN  f[p] + SumOver(f, S \ {p})
sum(f) == SumOver(f, Philosophers)

\* The reporters of model.py:38-72.
count_in(s) == Cardinality({p \in Philosophers : state[p] = s})

\* An average over the philosophers that are not at table.
avg_wait_time_without_eaters ==
    LET away == {p \in Philosophers : state[p] # EATING}
    IN  IF SumOver(eating_count, away) > 0
        THEN truediv(SumOver(total_wait_time, away), SumOver(eating_count, away))
        ELSE Zero

avg_wait_time ==
    IF sum(eating_count) > 0
    THEN truediv(sum(total_wait_time), sum(eating_count))
    ELSE Zero

\* A throughput that counts the meals started, not the meals finished.
throughput_of_meals_started ==
    IF steps > 0 THEN truediv(sum(eating_count), steps) ELSE Zero

throughput == IF steps > 0 THEN truediv(sum(total_eaten), steps) ELSE Zero

eaten_by(i) == IF 2 * i \in Philosophers THEN total_eaten[2 * i] ELSE 0

\* The row that datacollector.collect(self) computes from the current state.
model_reporters ==
    [Eating |-> count_in(EATING),
     Hungry |-> count_in(HUNGRY),
     Thinking |-> count_in(THINKING),
     AvgWaitTime |-> avg_wait_time,
     Throughput |-> throughput,
     P |-> [i \in 0..(MaxReporters - 1) |-> eaten_by(i)]]

\* ------------------------------------------------------------- scheduler
\* A step() whose shuffle draws the turns with replacement.
BeginStep_with_replacement(cap) ==
    /\ pc = "idle"
    /\ steps' = Add(steps, 1, cap.limited, cap.other)
    /\ order' \in [1..Cardinality(Philosophers) -> Philosophers]
    /\ pc' = "turns"
    /\ drawn' = 0
    /\ UNCHANGED <<config, philosopher_fields, fork_fields, collected, sample>>

\* DiningPhilosophersModel.step, entry: mesa advances model.steps, then
\* shuffle_do fixes the order of the turns of this tick.
BeginStep(cap) ==
    /\ pc = "idle"
    /\ steps' = Add(steps, 1, cap.limited, cap.other)
    /\ order' \in Orders(Philosophers)
    /\ pc' = "turns"
    /\ drawn' = 0
    /\ UNCHANGED <<config, philosopher_fields, fork_fields, collected, sample>>

\* shuffle_do("step"): the next philosopher of the order takes its whole turn.
Turn(cap) ==
    /\ pc = "turns"
    /\ order # <<>>
    /\ \E u \in Draws : step(Head(order), u, cap)
    /\ order' = Tail(order)
    /\ UNCHANGED <<config, steps, pc, collected, sample>>

\* A collection that starts the wait statistics afresh once it has reported them.
Collect_resets_wait(cap) ==
    /\ pc = "turns"
    /\ order = <<>>
    /\ collected' = Add(collected, 1, cap.limited, cap.other)
    /\ sample' = IF cap.rows THEN <<model_reporters>> ELSE sample
    /\ pc' = "idle"
    /\ total_wait_time' = [p \in Philosophers |-> 0]
    /\ UNCHANGED <<config, state, total_eaten, ticks_since_state_change, eating_count,
                   fork_fields, steps, order, drawn>>

\* The data collector stores the row its reporters returned; step() returns.
CollectRow(cap, row) ==
    /\ pc = "turns"
    /\ order = <<>>
    /\ collected' = Add(collected, 1, cap.limited, cap.other)
    /\ sample' = IF cap.rows THEN <<row>> ELSE sample
    /\ pc' = "idle"
    /\ UNCHANGED <<config, philosopher_fields, fork_fields, steps, order, drawn>>

\* datacollector.collect(self), after the last turn.
Collect(cap) == CollectRow(cap, model_reporters)

\* ------------------------------------------------------------- bounded runs
model_step == (steps + 1) * Cardinality(Philosophers) <= MaxTurns /\ BeginStep(ExactCounters)
agent_step == Turn(ExactCounters)
collect == Collect(ExactCounters)

Next == model_step \/ agent_step \/ collect

Spec == Init /\ [][Next]_vars

\* The same runs from every model the constructor builds; a table without
\* philosophers has no turns to count, so the calls of step() are counted too.
model_step_any == steps < MaxTurns /\ model_step
NextAnyArguments == model_step_any \/ agent_step \/ collect
SpecAnyArguments == InitAnyArguments /\ [][NextAnyArguments]_vars

\* ------------------------------------------------------------- unbounded runs
\* step() is called for ever. No turn reads the order of the shuffle, so the
\* order is revealed one turn at a time: order holds the philosophers that
\* have not had their turn in this tick, in ascending position.
Ascending(P) == [i \in 1..P |-> 2 * (i - 1)]
Without(seq, i) == [j \in 1..(Len(seq) - 1) |-> IF j < i THEN seq[j] ELSE seq[j + 1]]

BeginStepUnbounded(cap) ==
    /\ pc = "idle"
    /\ steps' = Add(steps, 1, cap.limited, cap.other)
    /\ order' = Ascending(Cardinality(Philosophers))
    /\ pc' = "turns"
    /\ drawn' = 0
    /\ UNCHANGED <<config, philosopher_fields, fork_fields, collected, sample>>

TurnUnbounded(cap) ==
    /\ pc = "turns"
    /\ \E i \in 1..Len(order) :
          /\ \E u \in Draws : step(order[i], u, cap)
          /\ order' = Without(order, i)
    /\ UNCHANGED <<config, steps, pc, collected, sample>>

\* Every position a philosopher of some explored ring stands on.
Positions ==
    {2 * i : i \in 0..((IF MaxPhilosophers > DefaultPhilosophers
                         THEN MaxPhilosophers ELSE DefaultPhilosophers) - 1)}

\* The turn of p in which random.random() < hungry_chance (agent.py:45).
BecomesHungry(p, cap) ==
    /\ p \in Philosophers /\ state[p] = THINKING
    /\ TurnUnbounded(cap) /\ state'[p] = HUNGRY

\* The turn of p in which random.random() < full_chance (agent.py:54).
FinishesEating(p, cap) ==
    /\ p \in Philosophers /\ state[p] = EATING
    /\ TurnUnbounded(cap) /\ state'[p] = THINKING

\* Runs that follow the states and the forks only: no counter is tracked.
model_step_unbounded == BeginStepUnbounded(NoCounters)
agent_step_unbounded == TurnUnbounded(NoCounters)
collect_unbounded == Collect(NoCounters)
NextUnbounded == model_step_unbounded \/ agent_step_unbounded \/ collect_unbounded

\* Runs that also count the meals, up to LiveCap.
model_step_meals == BeginStepUnbounded(MealCounters)
agent_step_meals == TurnUnbounded(MealCounters)
collect_meals == Collect(MealCounters)
NextMeals == model_step_meals \/ agent_step_meals \/ collect_meals

\* The caller keeps calling step(), every step() runs to its end, and a
\* Bernoulli draw with a positive chance that is repeated for ever succeeds.
FairUnbounded ==
    /\ WF_vars(NextUnbounded)
    /\ \A p \in Positions : SF_vars(FinishesEating(p, NoCounters))
FairHungerUnbounded ==
    \A p \in Positions : SF_vars(BecomesHungry(p, NoCounters))
FairMeals ==
    /\ WF_vars(NextMeals)
    /\ \A p \in Positions : SF_vars(FinishesEating(p, MealCounters))
    /\ \A p \in Positions : SF_vars(BecomesHungry(p, MealCounters))

InitAtomic == Init /\ strategy = "Atomic"
InitNaive == Init /\ strategy = "Naive"
\* The default ring with Thinking lasting one turn and meals of any length.
InitDefaultRing ==
    /\ ModelInit(DefaultPhilosophers)
    /\ strategy = "Atomic"
    /\ hungry_chance = ChanceScale
    /\ full_chance > 0

\* Atomic, every ring size: eaters finish.
SpecAtomicFair == InitAtomic /\ [][NextUnbounded]_vars /\ FairUnbounded

\* Naive, every ring size: thinkers get hungry and eaters finish.
SpecNaiveFair ==
    InitNaive /\ [][NextUnbounded]_vars /\ FairUnbounded /\ FairHungerUnbounded

\* Naive, every ring size: eaters finish, and nothing is asked of the thinkers.
SpecNaiveMeals == InitNaive /\ [][NextUnbounded]_vars /\ FairUnbounded

\* Atomic on the default ring of five: thinkers get hungry and eaters finish.
SpecDefaultRing == InitDefaultRing /\ [][NextMeals]_vars /\ FairMeals

\* Cooperative. Lines 134-139 read the counts of Hungry philosophers only, and
\* what they decide depends on the difference of two counts only as far as it
\* is 0, 1, or 2 and more: the turn of this tick may or may not be in a count,
\* which shifts a difference by one. A philosopher that becomes Hungry starts
\* at 0, one tick or more behind every philosopher already Hungry. Between
\* two calls of step() the counts of the Hungry philosophers are therefore
\* kept in their order, the least of them at 1 at most and each next one 2 at
\* most above the one before, and the counts nobody reads at 0; every later
\* comparison comes out as it would on the counts themselves.
Hungry == {p \in Philosophers : state[p] = HUNGRY}
RECURSIVE Compressed(_, _)
Compressed(v, V) ==
    LET below == {w \in V : w < v}
    IN  IF below = {}
        THEN IF v > 1 THEN 1 ELSE v
        ELSE LET w == CHOOSE x \in below : \A y \in below : y <= x
             IN  Compressed(w, V) + (IF v - w > 2 THEN 2 ELSE v - w)

CollectCompressed(cap) ==
    /\ pc = "turns"
    /\ order = <<>>
    /\ collected' = Add(collected, 1, cap.limited, cap.other)
    /\ pc' = "idle"
    /\ ticks_since_state_change' =
           [p \in Philosophers |->
               IF state[p] = HUNGRY
               THEN Compressed(ticks_since_state_change[p],
                               {ticks_since_state_change[q] : q \in Hungry})
               ELSE 0]
    /\ UNCHANGED <<config, state, total_eaten, total_wait_time, eating_count,
                   fork_fields, steps, order, sample, drawn>>

model_step_cooperative == BeginStepUnbounded(TickCounters)
agent_step_cooperative == TurnUnbounded(TickCounters)
collect_cooperative == CollectCompressed(TickCounters)
NextCooperative ==
    model_step_cooperative \/ agent_step_cooperative \/ collect_cooperative

\* step() is called again and again, and a meal does not last forever.
FairCooperative ==
    /\ WF_vars(NextCooperative)
    /\ \A p \in Positions : SF_vars(FinishesEating(p, TickCounters))

InitCooperative == Init /\ strategy = "Cooperative" /\ full_chance > 0

\* Cooperative, every ring size: eaters finish.
SpecCooperativeFair == InitCooperative /\ [][NextCooperative]_vars /\ FairCooperative

\* ------------------------------------------------------------- long runs
\* MaxSamples calls of step() on the smallest ring, with every counter exact
\* and every row followed, where every draw succeeds: each philosopher gets
\* hungry in the turn after a meal and ends a meal in the turn after its start.
InitBusyTable ==
    /\ ModelInit(MinPhilosophers)
    /\ strategy = "Atomic"
    /\ hungry_chance = ChanceScale
    /\ full_chance = ChanceScale
model_step_busy == steps < MaxSamples /\ BeginStepUnbounded(ExactCounters)
agent_step_busy == TurnUnbounded(ExactCounters)
collect_busy == Collect(ExactCounters)
NextBusy == model_step_busy \/ agent_step_busy \/ collect_busy
SpecBusyTable == InitBusyTable /\ [][NextBusy]_vars

\* The first ring with more philosophers than the data collector has P{i}
\* reporters, under Atomic with every draw succeeding: a philosopher is Hungry
\* after its first turn and ends a meal in the turn after its start.
InitLargeRing ==
    /\ ModelInitWith(MaxReporters + 1, {ChanceScale})
    /\ strategy = "Atomic"
model_step_large == steps < LargeRingSteps /\ BeginStepUnbounded(ExactCounters)
agent_step_large == TurnUnbounded(ExactCounters)
collect_large == Collect(ExactCounters)
NextLarge == model_step_large \/ agent_step_large \/ collect_large
SpecLargeRing == InitLargeRing /\ [][NextLarge]_vars

\* ------------------------------------------------------------- properties
\* The philosopher whose turn is next, when a turn is pending.
TurnPending == pc = "turns" /\ order # <<>>
Owns(p, f) == owner[f] = p
Adjacent(p, q) == q = (p + 2) % num_nodes \/ p = (q + 2) % num_nodes

\* C1: every fork is used exactly when it has an owner, and an owner is a
\* philosopher standing next to the fork (position fork-1 or fork+1 mod 2P).
ForkConsistency ==
    \A f \in Forks :
        /\ is_used[f] = (owner[f] # None)
        /\ owner[f] # None =>
              /\ owner[f] \in Philosophers
              /\ owner[f] \in {(f - 1) % num_nodes, (f + 1) % num_nodes}

\* One fork is claimed while the two forks of a philosopher that finished a
\* meal have been released again.
ForkConsistencyWitness ==
    /\ \E f \in Forks : owner[f] # None
    /\ \E p \in Philosophers :
          total_eaten[p] > 0 /\ ~is_used[left_pos(p)] /\ ~is_used[right_pos(p)]

\* C2: a philosopher in state EATING owns both forks next to it.
EatingImpliesOwnership ==
    \A p \in Philosophers :
        state[p] = EATING =>
            Owns(p, (p - 1) % num_nodes) /\ Owns(p, (p + 1) % num_nodes)

\* A philosopher eats under the Naive strategy, which claims its forks one by one.
EatingImpliesOwnershipWitness ==
    strategy = "Naive" /\ \E p \in Philosophers : state[p] = EATING

\* C3: two philosophers that share a fork are never both EATING.
MutualExclusion ==
    \A p, q \in Philosophers :
        Adjacent(p, q) /\ p # q => ~(state[p] = EATING /\ state[q] = EATING)

\* Two philosophers eat at once (they do not share a fork) while a third,
\* between them, is hungry and has already been turned away.
MutualExclusionWitness ==
    \E p, q, r \in Philosophers :
        /\ p # q /\ state[p] = EATING /\ state[q] = EATING
        /\ Adjacent(p, r) /\ Adjacent(r, q)
        /\ state[r] = HUNGRY /\ ticks_since_state_change[r] > 0

\* C4: under Atomic the turn of a Hungry philosopher claims both forks and
\* starts eating exactly when both are free before the turn; otherwise the
\* fork fields are untouched and the philosopher is still HUNGRY.
AtomicAllOrNothing ==
    [][(TurnPending /\ strategy = "Atomic" /\ state[Head(order)] = HUNGRY) =>
         LET p == Head(order)
             l == (p - 1) % num_nodes
             r == (p + 1) % num_nodes
         IN  IF ~is_used[l] /\ ~is_used[r]
             THEN /\ state'[p] = EATING
                  /\ is_used'[l] /\ is_used'[r]
                  /\ owner'[l] = p /\ owner'[r] = p
             ELSE /\ state'[p] = HUNGRY
                  /\ is_used' = is_used
                  /\ owner' = owner]_vars

\* Under Atomic one philosopher eats and a neighbour has been refused.
AtomicAllOrNothingWitness ==
    /\ strategy = "Atomic"
    /\ \E p, q \in Philosophers :
          /\ Adjacent(p, q) /\ state[p] = EATING
          /\ state[q] = HUNGRY /\ ticks_since_state_change[q] > 0

\* C5: under Atomic and under Cooperative a philosopher owns both of its
\* forks when it is EATING and none of them otherwise.
NoPartialHold ==
    strategy \in {"Atomic", "Cooperative"} =>
        \A p \in Philosophers :
            LET l == (p - 1) % num_nodes
                r == (p + 1) % num_nodes
            IN  IF state[p] = EATING
                THEN Owns(p, l) /\ Owns(p, r)
                ELSE ~Owns(p, l) /\ ~Owns(p, r)

\* Under Cooperative one philosopher eats while a hungry neighbour, refused
\* at least once, holds nothing.
NoPartialHoldWitness ==
    /\ strategy = "Cooperative"
    /\ \E p, q \in Philosophers :
          /\ Adjacent(p, q) /\ state[p] = EATING
          /\ state[q] = HUNGRY /\ ticks_since_state_change[q] > 0


\* A turn in which some philosopher goes from HUNGRY to EATING.
StartsEating == \E p \in Philosophers : state[p] = HUNGRY /\ state'[p] = EATING
SomeHungry == \E p \in Philosophers : state[p] = HUNGRY

\* C6: under Atomic with full_chance > 0, when every Eating philosopher
\* eventually finishes, a state with a Hungry philosopher is always followed
\* by a turn that takes some philosopher from HUNGRY to EATING. A philosopher
\* leaves HUNGRY only by such a turn, so this is: if from some point on there
\* is always a Hungry philosopher, such turns happen again and again.
AtomicDeadlockFree ==
    (strategy = "Atomic" /\ full_chance > 0) =>
        (<>[]SomeHungry => []<><<StartsEating>>_vars)

\* Under Atomic one philosopher eats and every other philosopher is Hungry.
AtomicDeadlockFreeWitness ==
    /\ strategy = "Atomic" /\ full_chance > 0
    /\ \E p \in Philosophers :
          /\ state[p] = EATING
          /\ \A q \in Philosophers \ {p} : state[q] = HUNGRY

\* C7, as claimed: under Atomic on the ring of five, with both chances
\* positive and fair draws, every philosopher eventually finishes a meal.
NoStarvationAtomic ==
    (hungry_chance > 0 /\ full_chance > 0) =>
        \A p \in Positions : <>(p \in Philosophers => total_eaten[p] > 0)

\* C7, amended: under the same conditions some philosopher eventually
\* finishes a meal.
SomeoneEatsAtomic ==
    (hungry_chance > 0 /\ full_chance > 0) =>
        <>(\E p \in Philosophers : total_eaten[p] > 0)

\* On the ring of five a Hungry philosopher has not eaten yet while both of
\* its neighbours have finished a meal.
SomeoneEatsAtomicWitness ==
    \E p \in Philosophers :
        /\ state[p] = HUNGRY /\ total_eaten[p] = 0
        /\ total_eaten[(p - 2) % num_nodes] > 0
        /\ total_eaten[(p + 2) % num_nodes] > 0

\* The configuration of the classical deadlock: every philosopher is HUNGRY,
\* owns its left fork and finds its right fork owned by its right neighbour.
NaiveDeadlock ==
    /\ strategy = "Naive"
    /\ \A p \in Philosophers :
          /\ state[p] = HUNGRY
          /\ owner[(p - 1) % num_nodes] = p
          /\ is_used[(p + 1) % num_nodes]
          /\ owner[(p + 1) % num_nodes] = (p + 2) % num_nodes

NaiveAcquisitionRule ==
    [][strategy = "Naive" =>
         /\ (TurnPending /\ state[Head(order)] = HUNGRY) =>
               LET p == Head(order)
                   l == (p - 1) % num_nodes
                   r == (p + 1) % num_nodes
                   takes_left == owner[l] # p /\ ~is_used[l]
               IN  /\ IF takes_left
                      THEN owner'[l] = p /\ is_used'[l]
                      ELSE owner'[l] = owner[l] /\ is_used'[l] = is_used[l]
                   /\ IF owner'[l] = p /\ ~is_used[r]
                      THEN owner'[r] = p /\ is_used'[r] /\ state'[p] = EATING
                      ELSE /\ owner'[r] = owner[r] /\ is_used'[r] = is_used[r]
                           /\ state'[p] = HUNGRY
                   /\ owner'[r] = p => owner'[l] = p
         /\ \A q \in Philosophers :
               (state[q] = HUNGRY /\ state'[q] = HUNGRY
                   /\ owner[(q - 1) % num_nodes] = q)
               => owner'[(q - 1) % num_nodes] = q]_vars

\* Under Naive a Hungry philosopher begins its turn owning the left fork it
\* claimed in an earlier tick, with the right fork still in use.
NaiveAcquisitionRuleWitness ==
    /\ strategy = "Naive" /\ TurnPending
    /\ LET p == Head(order)
       IN  /\ state[p] = HUNGRY
           /\ owner[(p - 1) % num_nodes] = p
           /\ is_used[(p + 1) % num_nodes]

\* C10: under Cooperative the turn of a Hungry philosopher changes nothing
\* but its tick count when a fork next to it is in use, or when a Hungry
\* philosopher at pos-2 or pos+2 has a greater tick count than the acting
\* philosopher has in this turn (its count before the turn plus one), or an
\* equal one and a lower position; in every other case it claims both forks
\* and starts eating.
CooperativeYieldRule ==
    [][(TurnPending /\ strategy = "Cooperative" /\ state[Head(order)] = HUNGRY) =>
         LET p == Head(order)
             l == (p - 1) % num_nodes
             r == (p + 1) % num_nodes
             mine == ticks_since_state_change[p] + 1
             yields ==
                 \E q \in {(p - 2) % num_nodes, (p + 2) % num_nodes} :
                     /\ state[q] = HUNGRY
                     /\ \/ ticks_since_state_change[q] > mine
                        \/ ticks_since_state_change[q] = mine /\ q < p
         IN  IF is_used[l] \/ is_used[r] \/ yields
             THEN /\ state'[p] = HUNGRY
                  /\ is_used' = is_used
                  /\ owner' = owner
             ELSE /\ state'[p] = EATING
                  /\ is_used'[l] /\ is_used'[r]
                  /\ owner'[l] = p /\ owner'[r] = p]_vars

\* At the end of a tick under Cooperative a philosopher that had a turn as a
\* Hungry philosopher is still Hungry with both forks free and both second
\* neighbours Hungry: its forks were free in its turn and it yielded.
CooperativeYieldRuleWitness ==
    /\ strategy = "Cooperative" /\ pc = "turns" /\ order = <<>>
    /\ \E p \in Philosophers :
          /\ state[p] = HUNGRY /\ ticks_since_state_change[p] > 0
          /\ ~is_used[(p - 1) % num_nodes] /\ ~is_used[(p + 1) % num_nodes]
          /\ state[(p - 2) % num_nodes] = HUNGRY
          /\ state[(p + 2) % num_nodes] = HUNGRY

\* When every turn of a tick has been taken, the state each philosopher had
\* when the tick began can be read off: a turn that changes the state resets
\* the tick count to 0 and a turn that keeps it makes the count positive.
TickDone == pc = "turns" /\ order = <<>>
WasHungry(p) ==
    \/ state[p] = HUNGRY /\ ticks_since_state_change[p] > 0
    \/ state[p] = EATING /\ ticks_since_state_change[p] = 0
WasEating(p) ==
    \/ state[p] = EATING /\ ticks_since_state_change[p] > 0
    \/ state[p] = THINKING /\ ticks_since_state_change[p] = 0

\* C11: under Cooperative, a tick that begins with at least one Hungry
\* philosopher and no Eating philosopher takes at least one philosopher from
\* HUNGRY to EATING, whatever the order of the turns.
CooperativeDeadlockFree ==
    (strategy = "Cooperative" /\ TickDone) =>
        ((\E p \in Philosophers : WasHungry(p)) /\ (\A p \in Philosophers : ~WasEating(p))
            => \E p \in Philosophers :
                  state[p] = EATING /\ ticks_since_state_change[p] = 0)

\* A tick under Cooperative that began with two Hungry neighbours of unequal
\* waits and nobody Eating: one of them has started to eat, the other, which
\* has waited for three ticks by now, has not.
CooperativeDeadlockFreeWitness ==
    /\ strategy = "Cooperative" /\ TickDone
    /\ \A p \in Philosophers : ~WasEating(p)
    /\ \E p, q \in Philosophers :
          /\ Adjacent(p, q)
          /\ state[p] = EATING /\ ticks_since_state_change[p] = 0
          /\ state[q] = HUNGRY /\ ticks_since_state_change[q] > 2

\* C12: every philosopher starts in THINKING; a step leaves the state of a
\* philosopher alone or takes it from THINKING to HUNGRY, from HUNGRY to
\* EATING or from EATING to THINKING, and to nothing else; and the step that
\* makes a philosopher Hungry touches no fork.
TransitionRelation ==
    /\ \A p \in Philosophers : state[p] = THINKING
    /\ [][\A p \in Philosophers :
             /\ <<state[p], state'[p]>> \in
                   {<<THINKING, THINKING>>, <<HUNGRY, HUNGRY>>, <<EATING, EATING>>,
                    <<THINKING, HUNGRY>>, <<HUNGRY, EATING>>, <<EATING, THINKING>>}
             /\ (state[p] = THINKING /\ state'[p] = HUNGRY) =>
                   (is_used' = is_used /\ owner' = owner)]_vars

\* A philosopher has gone once round the cycle and is Hungry again, next to
\* two free forks that it did not touch when it became Hungry.
TransitionRelationWitness ==
    \E p \in Philosophers :
        /\ total_eaten[p] > 0 /\ state[p] = HUNGRY /\ ticks_since_state_change[p] = 0
        /\ ~is_used[(p - 1) % num_nodes] /\ ~is_used[(p + 1) % num_nodes]

\* The fields of philosopher p.
FieldsOf(p) ==
    <<state[p], total_eaten[p], ticks_since_state_change[p], total_wait_time[p],
      eating_count[p]>>

\* C13: a call of step() fixes one order that holds every philosopher once
\* and no fork; the turns are taken one at a time from the head of that
\* order, each changing the fields of its philosopher only; one row is
\* collected, after the last turn and never before it, so that the rows
\* number the calls; and a philosopher whose state never changes has had as
\* many turns as there were calls.
TickScheduling ==
    [][/\ pc = "idle" =>
             /\ pc' = "turns" /\ steps' = steps + 1 /\ collected' = collected
             /\ Len(order') = Cardinality(Philosophers)
             /\ \A p \in Philosophers :
                   Cardinality({i \in 1..Len(order') : order'[i] = p}) = 1
             /\ \A i \in 1..Len(order') : order'[i] \notin Forks
             /\ philosopher_fields' = philosopher_fields /\ fork_fields' = fork_fields
       /\ (pc = "turns" /\ order # <<>>) =>
             /\ pc' = "turns" /\ order' = Tail(order)
             /\ steps' = steps /\ collected' = collected
             /\ \A q \in Philosophers \ {Head(order)} : FieldsOf(q)' = FieldsOf(q)
       /\ (pc = "turns" /\ order = <<>>) =>
             /\ pc' = "idle" /\ collected' = collected + 1 /\ steps' = steps
       /\ pc' = "idle" =>
             /\ collected' = steps'
             /\ hungry_chance = 0 =>
                   \A p \in Philosophers : ticks_since_state_change'[p] = steps']_vars

\* step() has returned for the second time: two rows are collected and a
\* philosopher that became Hungry in the first call eats since the second.
TickSchedulingWitness ==
    /\ pc = "idle" /\ steps = 2 /\ collected = 2
    /\ \E p \in Philosophers : state[p] = EATING

\* What a snapshot of the philosophers and the forks holds.
Snapshot == <<philosopher_fields, fork_fields>>

ThreeHungryAtomic ==
    /\ num_nodes = 2 * MinPhilosophers /\ strategy = "Atomic"
    /\ hungry_chance = ChanceScale /\ full_chance = 0

\* Exactly one philosopher eats, owning both of its forks, and the others are Hungry.
OneEats ==
    \E p \in Philosophers :
        /\ state[p] = EATING
        /\ Owns(p, (p - 1) % num_nodes) /\ Owns(p, (p + 1) % num_nodes)
        /\ \A q \in Philosophers \ {p} : state[q] = HUNGRY

\* C15: with P = 3, hungry_chance = 1, full_chance = 0 and Atomic, whatever
\* the orders: when the first tick is over all three philosophers are HUNGRY
\* and every fork is free; the first turn of the second tick makes its
\* philosopher eat; when the second tick is over exactly one philosopher is
\* EATING, owning both of its forks, and the other two are HUNGRY; and from
\* then on no step changes a state or a fork.
ConcreteScenario ==
    [][ThreeHungryAtomic =>
         /\ (TickDone' /\ steps' = 1) =>
               /\ \A p \in Philosophers : state'[p] = HUNGRY
               /\ \A f \in Forks : ~is_used'[f] /\ owner'[f] = None
         /\ (TurnPending /\ steps = 2 /\ Len(order) = Cardinality(Philosophers)) =>
               state'[Head(order)] = EATING
         /\ (TickDone' /\ steps' >= 2) => OneEats'
         /\ (steps > 2 \/ (steps = 2 /\ (TickDone \/ pc = "idle"))) =>
               (state' = state /\ fork_fields' = fork_fields)]_vars

\* The scenario after its fourth tick: one philosopher eats since the second
\* tick and a Hungry one has been turned away three times.
ConcreteScenarioWitness ==
    /\ ThreeHungryAtomic /\ pc = "idle" /\ steps = 4
    /\ \E p, q \in Philosophers :
          /\ state[p] = EATING /\ ticks_since_state_change[p] = 2
          /\ state[q] = HUNGRY /\ ticks_since_state_change[q] = 3

\* C16: total_wait_time and eating_count of a philosopher change only in the
\* step that takes it from HUNGRY to EATING; that step adds 1 to eating_count,
\* adds to total_wait_time the number of ticks since the one in which the
\* philosopher became Hungry (its count of turns as a Hungry philosopher,
\* this one included) and resets ticks_since_state_change to 0. Where every
\* philosopher becomes Hungry in tick 1 (hungry_chance = 1), the first meal
\* that starts in tick 1 + k books a wait of k.
WaitTimeAccounting ==
    [][\A p \in Philosophers :
          IF state[p] = HUNGRY /\ state'[p] = EATING
          THEN /\ eating_count'[p] = eating_count[p] + 1
               /\ total_wait_time'[p] =
                     total_wait_time[p] + ticks_since_state_change[p] + 1
               /\ ticks_since_state_change'[p] = 0
               /\ (hungry_chance = ChanceScale /\ eating_count[p] = 0) =>
                     total_wait_time'[p] = steps - 1
          ELSE /\ eating_count'[p] = eating_count[p]
               /\ total_wait_time'[p] = total_wait_time[p]]_vars

\* A philosopher has just started its first meal after a wait of three ticks.
WaitTimeAccountingWitness ==
    \E p \in Philosophers :
        /\ state[p] = EATING /\ ticks_since_state_change[p] = 0
        /\ eating_count[p] = 1 /\ total_wait_time[p] = 3

\* C17: the step that takes a philosopher from EATING to THINKING leaves both
\* forks next to it unused and without owner, adds 1 to its total_eaten and
\* changes no other fork; no other step changes a total_eaten.
ReleaseOnFinishing ==
    [][\A p \in Philosophers :
          IF state[p] = EATING /\ state'[p] = THINKING
          THEN /\ \A f \in {(p - 1) % num_nodes, (p + 1) % num_nodes} :
                     ~is_used'[f] /\ owner'[f] = None
               /\ \A f \in Forks \ {(p - 1) % num_nodes, (p + 1) % num_nodes} :
                     is_used'[f] = is_used[f] /\ owner'[f] = owner[f]
               /\ total_eaten'[p] = total_eaten[p] + 1
          ELSE total_eaten'[p] = total_eaten[p]]_vars

\* A philosopher has just finished a meal and its forks are free, while on
\* the other side of the ring a philosopher eats and keeps its two forks.
ReleaseOnFinishingWitness ==
    \E p, q \in Philosophers :
        /\ state[p] = THINKING /\ ticks_since_state_change[p] = 0 /\ total_eaten[p] = 1
        /\ ~is_used[(p - 1) % num_nodes] /\ ~is_used[(p + 1) % num_nodes]
        /\ state[q] = EATING /\ Owns(q, (q - 1) % num_nodes) /\ Owns(q, (q + 1) % num_nodes)

\* step() has returned at least once: sample[1] is the row of its last call.
Sampled == pc = "idle" /\ sample # <<>>

\* C18, as claimed: in the row collected by the n-th call of step(),
\* Throughput * n equals the sum of total_eaten.
ThroughputExact ==
    Sampled => float_mul(sample[1].Throughput, steps) = float_of(sum(total_eaten))

\* C18, amended: Throughput * n is the sum of total_eaten or one of the two
\* floats next to it, and it is 0 when the sum is 0.
ThroughputWithinRounding ==
    Sampled =>
        LET eaten == sum(total_eaten)
            product == float_mul(sample[1].Throughput, steps)
        IN  IF eaten = 0
            THEN product = Zero
            ELSE product \in {float_of(eaten), Successor(float_of(eaten)),
                              Predecessor(float_of(eaten))}

\* The row of the third call after the first meal has ended: Throughput is
\* 1/3, the float 0x1.5555555555555p-2.
ThroughputWithinRoundingWitness ==
    /\ Sampled /\ steps = 3 /\ sum(total_eaten) = 1
    /\ sample[1].Throughput = [digits |-> <<1, 2730, 5461, 2730, 5461>>, exp |-> -2]

\* C19: in every row Avg Wait Time is 0 when the eating_count of all
\* philosophers sum to 0, and otherwise the quotient of the sum of
\* total_wait_time by the sum of eating_count over all philosophers, the
\* ones that are EATING included; where the division leaves no remainder it
\* is that integer.
AverageWaitMetric ==
    Sampled =>
        LET waited == sum(total_wait_time)
            meals == sum(eating_count)
            average == sample[1].AvgWaitTime
        IN  IF meals = 0
            THEN average = Zero
            ELSE /\ average = truediv(waited, meals)
                 /\ waited % meals = 0 => average = float_of(waited \div meals)
                 /\ float_mul(average, meals) \in
                       {float_of(waited), Successor(float_of(waited)),
                        Predecessor(float_of(waited))}

\* A row taken while a philosopher that waited two ticks is EATING, after a
\* meal that began after one tick: Avg Wait Time is 3 / 2 = 1.5.
AverageWaitMetricWitness ==
    /\ Sampled /\ sum(total_wait_time) = 3 /\ sum(eating_count) = 2
    /\ \E p \in Philosophers : state[p] = EATING /\ total_wait_time[p] = 2
    /\ sample[1].AvgWaitTime = [digits |-> <<1, 4096, 0, 0, 0>>, exp |-> 0]

\* C20: the step that collects a row changes no field of a philosopher and
\* no field of a fork.
MetricsReadOnly ==
    [][TickDone =>
         /\ state' = state /\ ticks_since_state_change' = ticks_since_state_change
         /\ total_eaten' = total_eaten /\ total_wait_time' = total_wait_time
         /\ eating_count' = eating_count
         /\ is_used' = is_used /\ owner' = owner]_vars

\* A row has been taken in which every reporter has something to report, and
\* the philosophers and forks still are what it reports.
MetricsReadOnlyWitness ==
    /\ Sampled
    /\ sample[1].Eating > 0 /\ sample[1].Hungry > 0 /\ sample[1].Thinking > 0
    /\ sample[1].AvgWaitTime # Zero /\ sample[1].Throughput # Zero
    /\ \E i \in 0..(MaxReporters - 1) : sample[1].P[i] > 0
    /\ sample[1].Eating = Cardinality({p \in Philosophers : state[p] = EATING})
    /\ sum(total_wait_time) > 0
    /\ \E f \in Forks : is_used[f]
\* C21: constructing a model with fewer than MinPhilosophers philosophers fails
\* and yields no model: no ring of 0, 1 or 2 philosophers is ever built or
\* stepped.
SmallRingRejected == Cardinality(Philosophers) >= MinPhilosophers

\* C22: constructing a model with hungry_chance or full_chance outside [0, 1]
\* fails and yields no model: the probabilities of every model lie in [0, 1].
ChanceOutOfRangeRejected == hungry_chance \in Chances /\ full_chance \in Chances

\* C23: step() never fails. In every reachable state of a ring of three or more
\* under one of the three strategies, a call of step() can begin, the turn that
\* is next in a call under way completes and so does the collection that ends
\* the call; the only states are THINKING, HUNGRY and EATING; and the turn of a
\* Hungry philosopher whose acquisition does not succeed leaves it HUNGRY with
\* total_eaten, eating_count and total_wait_time unchanged.
StepNeverFails ==
    /\ [](/\ state \in [Philosophers -> {THINKING, HUNGRY, EATING}]
          /\ pc \in {"idle", "turns"}
          /\ pc = "idle" => ENABLED BeginStep(ExactCounters)
          /\ TurnPending => ENABLED agent_step
          /\ TickDone =>
                \E row \in {model_reporters} : ENABLED CollectRow(ExactCounters, row))
    /\ [][(TurnPending /\ state[Head(order)] = HUNGRY /\ state'[Head(order)] # EATING) =>
             /\ state'[Head(order)] = HUNGRY
             /\ total_eaten' = total_eaten
             /\ eating_count' = eating_count
             /\ total_wait_time' = total_wait_time]_vars

\* Some Hungry philosopher has taken a turn in this call of step() and is
\* Hungry still, with a turn of another philosopher to come.
StepNeverFailsWitness ==
    /\ TurnPending
    /\ \E p \in Philosophers :
           /\ state[p] = HUNGRY
           /\ ticks_since_state_change[p] > 0
           /\ \A i \in 1..Len(order) : order[i] # p

\* C24: frame of a turn. The turn of philosopher p changes at most p's own
\* fields and the is_used and owner fields of the forks at p-1 and p+1 (mod 2P):
\* every other philosopher keeps its state, its three totals and its
\* ticks_since_state_change, and every other fork its is_used and owner.
TurnFrame ==
    [][TurnPending =>
          /\ \A q \in Philosophers \ {Head(order)} :
                 /\ state'[q] = state[q]
                 /\ total_eaten'[q] = total_eaten[q]
                 /\ eating_count'[q] = eating_count[q]
                 /\ total_wait_time'[q] = total_wait_time[q]
                 /\ ticks_since_state_change'[q] = ticks_since_state_change[q]
          /\ \A f \in Forks \ {left_pos(Head(order)), right_pos(Head(order))} :
                 is_used'[f] = is_used[f] /\ owner'[f] = owner[f]
          /\ DOMAIN state' = Philosophers /\ DOMAIN is_used' = Forks
          /\ DOMAIN owner' = Forks]_vars

\* A philosopher has just taken both its forks in its turn while another one,
\* not its neighbour, is at table with a count of its own and two forks of
\* its own.
TurnFrameWitness ==
    /\ pc = "turns"
    /\ \E p, q \in Philosophers :
           /\ p # q /\ ~Adjacent(p, q)
           /\ state[p] = EATING /\ ticks_since_state_change[p] = 0
           /\ \A i \in 1..Len(order) : order[i] # p
           /\ state[q] = EATING /\ ticks_since_state_change[q] > 0
           /\ Owns(q, left_pos(q)) /\ Owns(q, right_pos(q))

\* The tick in which a Hungry philosopher q became Hungry, read off during the
\* turns of tick number steps: its count was set to 0 in that tick and has
\* grown by one in each of its turns since, the turn of this tick included
\* only if q has had it already.
HasActed(q) == \A i \in 1..Len(order) : order[i] # q
HungrySince(q) ==
    IF HasActed(q)
    THEN steps - ticks_since_state_change[q]
    ELSE steps - 1 - ticks_since_state_change[q]

\* C26: under Cooperative, whatever the order of the turns, a Hungry
\* philosopher never starts eating while a philosopher at pos-2 or pos+2 with a
\* lower position is Hungry and became Hungry in the same tick as it did.
CooperativeTieBreak ==
    [][(TurnPending /\ strategy = "Cooperative"
          /\ state[Head(order)] = HUNGRY /\ state'[Head(order)] = EATING) =>
         ~\E q \in neighbors_p(Head(order)) :
              /\ q < Head(order)
              /\ state[q] = HUNGRY
              /\ HungrySince(q) = HungrySince(Head(order))]_vars

\* C27: under Cooperative, whatever the order of the turns and whichever of the
\* two has had its turn in the current tick, a Hungry philosopher never starts
\* eating while a philosopher at pos-2 or pos+2 is Hungry and became Hungry in a
\* strictly earlier tick than it did.
CooperativeLongerWaiterFirst ==
    [][(TurnPending /\ strategy = "Cooperative"
          /\ state[Head(order)] = HUNGRY /\ state'[Head(order)] = EATING) =>
         ~\E q \in neighbors_p(Head(order)) :
              /\ state[q] = HUNGRY
              /\ HungrySince(q) < HungrySince(Head(order))]_vars

\* C28: under Cooperative with full_chance > 0, in every run in which every meal
\* ends, a philosopher that is Hungry eventually starts eating: nobody stays
\* Hungry forever.
NoStarvationCooperative ==
    \A p \in Positions :
        (p \in Philosophers /\ state[p] = HUNGRY)
            ~> (p \in Philosophers /\ state[p] = EATING)

\* At the end of a tick a Hungry philosopher with both forks free has been
\* passed over: it yields to a neighbour that has waited longer, and that
\* neighbour waits for a fork held by a philosopher at table.
NoStarvationCooperativeWitness ==
    /\ strategy = "Cooperative" /\ TickDone
    /\ \E p, q, r \in Philosophers :
           /\ state[p] = HUNGRY /\ ticks_since_state_change[p] > 0
           /\ ~is_used[left_pos(p)] /\ ~is_used[right_pos(p)]
           /\ Adjacent(p, q) /\ state[q] = HUNGRY
           /\ ticks_since_state_change[q] > ticks_since_state_change[p]
           /\ Adjacent(q, r) /\ state[r] = EATING

\* C29: under Naive with full_chance > 0, when every Eating philosopher
\* eventually finishes, every state reached from the all-Thinking table in
\* which some philosopher is Hungry is followed by a turn that takes some
\* philosopher from HUNGRY to EATING. A philosopher leaves HUNGRY only by such
\* a turn, so this is: if from some point on there is always a Hungry
\* philosopher, such turns happen again and again.
NaiveProgress ==
    (strategy = "Naive" /\ full_chance > 0) =>
        (<>[]SomeHungry => []<><<StartsEating>>_vars)

\* Under Naive every philosopher but one is Hungry and holds its left fork,
\* each waiting for the next, and the chain ends at the one that eats.
NaiveProgressWitness ==
    /\ strategy = "Naive" /\ full_chance > 0
    /\ \E e \in Philosophers :
           /\ state[e] = EATING
           /\ \A p \in Philosophers \ {e} :
                  /\ state[p] = HUNGRY
                  /\ p # (e + 2) % num_nodes => Owns(p, left_pos(p))
                  /\ is_used[right_pos(p)]

\* C30: under Naive, in every reachable state, a Thinking philosopher owns no
\* fork, a Hungry philosopher owns no fork or its left fork (pos-1) alone, never
\* its right fork (pos+1), and an Eating philosopher owns both of its forks
\* (and no other).
NaiveHoldingPattern ==
    strategy = "Naive" =>
        \A p \in Philosophers :
            LET owned == {f \in Forks : Owns(p, f)}
            IN  /\ state[p] = THINKING => owned = {}
                /\ state[p] = HUNGRY => owned \in {{}, {left_pos(p)}}
                /\ state[p] = EATING => owned = {left_pos(p), right_pos(p)}

\* The partial hold: between two calls of step() a Hungry philosopher owns its
\* left fork while its right fork is in use, and another Hungry philosopher
\* owns no fork at all.
NaiveHoldingPatternWitness ==
    /\ strategy = "Naive" /\ pc = "idle"
    /\ \E p, q \in Philosophers :
           /\ state[p] = HUNGRY
           /\ Owns(p, left_pos(p)) /\ ~Owns(p, right_pos(p)) /\ is_used[right_pos(p)]
           /\ state[q] = HUNGRY /\ \A f \in Forks : ~Owns(q, f)

\* C31: no fork is ever taken from its owner. Under every strategy the owner
\* of a fork changes only in the turn of a philosopher p next to the fork:
\* from None to p when p is Hungry, or from p to None when p goes from EATING
\* to THINKING; never from one philosopher to another, and never to None in
\* the turn of another philosopher than its owner.
OwnerChanges ==
    [][\A f \in Forks :
          owner'[f] # owner[f] =>
              /\ TurnPending
              /\ f \in {left_pos(Head(order)), right_pos(Head(order))}
              /\ \/ /\ owner[f] = None /\ owner'[f] = Head(order)
                    /\ state[Head(order)] = HUNGRY
                 \/ /\ owner[f] = Head(order) /\ owner'[f] = None
                    /\ state[Head(order)] = EATING
                    /\ state'[Head(order)] = THINKING]_vars

\* A fork has passed from one of its two philosophers to the other: its owner
\* is at table (or waits for its second fork) and the philosopher on its other
\* side, back to THINKING, has finished a meal.
OwnerChangesWitness ==
    \E f \in Forks :
        \E p, q \in Philosophers :
            /\ p # q /\ {p, q} = get_neighbors(f)
            /\ owner[f] = q
            /\ state[p] = THINKING /\ total_eaten[p] > 0

\* C32: the meal counters stay in step. In every reachable state and for every
\* philosopher, eating_count - total_eaten is 1 when the philosopher is EATING
\* and 0 when it is THINKING or HUNGRY, and no step makes total_eaten,
\* eating_count or total_wait_time smaller.
MealCountersInStep ==
    /\ [](\A p \in Philosophers :
             eating_count[p] - total_eaten[p] = IF state[p] = EATING THEN 1 ELSE 0)
    /\ [][\A p \in Philosophers :
             /\ total_eaten'[p] >= total_eaten[p]
             /\ eating_count'[p] >= eating_count[p]
             /\ total_wait_time'[p] >= total_wait_time[p]]_vars

\* One philosopher is back to THINKING with its meal counted as started and as
\* finished, while another is at table after a wait, its meal counted as
\* started only.
MealCountersInStepWitness ==
    \E p, q \in Philosophers :
        /\ state[p] = THINKING /\ total_eaten[p] = 1 /\ eating_count[p] = 1
        /\ state[q] = EATING /\ total_eaten[q] = 0 /\ eating_count[q] = 1
        /\ total_wait_time[q] > 1

\* C33: after each of its turns, the ticks_since_state_change of a philosopher
\* is 0 if the turn changed its state and otherwise exactly 1 more than before
\* the turn, and no other step changes it. A philosopher that becomes Hungry
\* therefore starts at 0 and adds 1 with every attempt that fails: the count of
\* a Hungry philosopher is the number of its failed attempts, one per tick
\* since the tick in which it became Hungry, which is a tick of this run.
TickCounterSemantics ==
    /\ [](\A p \in Philosophers :
             /\ ticks_since_state_change[p] >= 0
             /\ state[p] = HUNGRY => HungrySince(p) \in 1..steps)
    /\ [][\A p \in Philosophers :
             IF TurnPending /\ p = Head(order)
             THEN /\ state'[p] # state[p] => ticks_since_state_change'[p] = 0
                  /\ state'[p] = state[p] =>
                         ticks_since_state_change'[p] = ticks_since_state_change[p] + 1
                  /\ (state[p] = HUNGRY /\ state'[p] = HUNGRY) =>
                         /\ HungrySince(p)' = HungrySince(p)
                         /\ \E f \in my_forks(p) : owner'[f] # p
             ELSE ticks_since_state_change'[p] = ticks_since_state_change[p]]_vars

\* A Hungry philosopher has just failed for the second time: its count is 2.
TickCounterSemanticsWitness ==
    \E p \in Philosophers :
        /\ pc = "turns" /\ HasActed(p)
        /\ state[p] = HUNGRY
        /\ ticks_since_state_change[p] = 2
        /\ \E f \in my_forks(p) : owner[f] \notin {p, None}

\* C34, as claimed: every row of the data collector holds, for every
\* philosopher of the model (position 2i, reporter P{i}), its total_eaten, on
\* rings of more than 10 philosophers too.
EveryPhilosopherReported ==
    Sampled =>
        \A p \in Philosophers :
            /\ (p \div 2) \in DOMAIN sample[1].P
            /\ sample[1].P[p \div 2] = total_eaten[p]

\* C35: ring topology. A model of P >= 3 philosophers has 2P nodes, a
\* philosopher at every even position and a fork at every odd one; every
\* philosopher is adjacent to exactly two distinct forks, the ones at
\* (pos-1) mod 2P and (pos+1) mod 2P, and every fork to exactly two distinct
\* philosophers: the left and the right fork every strategy looks for are
\* among the forks it finds.
RingTopology ==
    Cardinality(Philosophers) >= MinPhilosophers =>
        /\ num_nodes = 2 * Cardinality(Philosophers)
        /\ Cardinality(Forks) = Cardinality(Philosophers)
        /\ DOMAIN state = {n \in 0..(num_nodes - 1) : n % 2 = 0}
        /\ DOMAIN is_used = {n \in 0..(num_nodes - 1) : n % 2 = 1}
        /\ DOMAIN owner = DOMAIN is_used
        /\ \A p \in DOMAIN state :
              /\ get_neighbors(p) \subseteq DOMAIN is_used
              /\ my_forks(p) = {(p - 1) % num_nodes, (p + 1) % num_nodes}
              /\ Cardinality(my_forks(p)) = 2
              /\ left_pos(p) \in my_forks(p)
              /\ right_pos(p) \in my_forks(p)
              /\ left_pos(p) # right_pos(p)
        /\ \A f \in DOMAIN is_used :
              /\ get_neighbors(f) \subseteq DOMAIN state
              /\ Cardinality(get_neighbors(f)) = 2
              /\ \A p \in get_neighbors(f) : f \in my_forks(p)

\* On the ring of four, the philosopher at position 0 is at table with its
\* two forks, the left one at the last position of the ring, while the
\* philosopher across the table is at table too with the two others.
RingTopologyWitness ==
    /\ num_nodes = 8
    /\ state[0] = EATING /\ owner[num_nodes - 1] = 0 /\ owner[1] = 0
    /\ state[4] = EATING /\ owner[3] = 4 /\ owner[5] = 4

\* C36: the random source is read in the order of the turns. Entering step()
\* draws the permutation and no philosopher has drawn yet; then each turn, taken
\* by the next philosopher of the permutation, calls random.random() exactly
\* once if this philosopher is THINKING or EATING at the start of the turn and
\* not at all if it is HUNGRY, whatever its strategy does; the collection
\* draws nothing. At any moment the calls made in this step() are therefore
\* as many as the philosophers that have had their turn and were not Hungry
\* when it began.
DrawSequence ==
    /\ [](steps > 0 =>
             drawn = Cardinality({q \in Philosophers : HasActed(q) /\ ~WasHungry(q)}))
    /\ [][/\ pc = "idle" => drawn' = 0 /\ order' \in Orders(Philosophers)
          /\ TurnPending =>
                /\ order' = Tail(order)
                /\ state[Head(order)] \in {THINKING, EATING} => drawn' = drawn + 1
                /\ state[Head(order)] = HUNGRY => drawn' = drawn
          /\ TickDone => drawn' = drawn]_vars

\* In one step() a Hungry philosopher has had its turn and started to eat
\* without a draw, after a neighbour drew once to end its meal: one call of
\* random.random() for two turns.
DrawSequenceWitness ==
    /\ pc = "turns" /\ drawn = 1
    /\ \E p, q \in Philosophers :
          /\ Adjacent(p, q) /\ HasActed(p) /\ HasActed(q)
          /\ state[p] = EATING /\ ticks_since_state_change[p] = 0
          /\ state[q] = THINKING /\ ticks_since_state_change[q] = 0
          /\ \A r \in Philosophers \ {p, q} : ~HasActed(r)

====
